---- MODULE Spec2Model ----
(***************************************************************************)
(* Model of scripts/setup-env.py: SystemDetector, ToolInstaller and main.  *)
(* The environment (platform.system(), the executables on the path, the    *)
(* command line flag and the way every shell invocation ends) is drawn     *)
(* nondeterministically; the script's own control flow is translated       *)
(* branch by branch.                                                       *)
(***************************************************************************)
EXTENDS Naturals, Sequences, FiniteSets

VARIABLES system,           \* platform.system().lower()
          path,             \* names shutil.which() resolves
          install_optional, \* args.install_optional
          pc,               \* position of main (or of the check_tool harness)
          pkg_mgr,          \* ToolInstaller.pkg_mgr
          success_count,    \* main's success_count
          total_tools,      \* main's total_tools
          ensured,          \* install_* calls that returned, in order
          cmds,             \* subprocess.run invocations, in order
          exit_status,      \* process exit status, NoStatus while running
          raised,           \* an exception left main
          call,             \* arguments of a direct check_tool call
          ret               \* what that call returned

vars == <<system, path, install_optional, pc, pkg_mgr, success_count,
          total_tools, ensured, cmds, exit_status, raised, call, ret>>

None == "None"
NoStatus == 2

\* the most package-manager executables put on the path of a full run
MaxPkgMgrsOnPath == 1

Systems == {"windows", "linux", "darwin", "freebsd"}
PkgMgrExes == {"winget", "choco", "scoop", "apt", "dnf", "yum", "pacman", "brew"}
ToolExes == {"cmake", "g++", "clang++", "cl", "git", "OpenCppCoverage",
             "gcovr", "lcov", "doxygen"}
\* how subprocess.run can end: exit status 0, exit status # 0, or an
\* exception of its own (OSError, UnicodeDecodeError, ...)
Outcomes == {"zero", "nonzero", "raise"}

Truthy(x) == x # None /\ x # ""

which(name) == name \in path

is_windows == system = "windows"
is_linux == system = "linux"
is_macos == system = "darwin"

\* variant: dnf probed before apt
get_package_manager_dnf_first ==
    IF is_windows THEN
        IF which("winget") THEN "winget"
        ELSE IF which("choco") THEN "choco"
        ELSE IF which("scoop") THEN "scoop"
        ELSE None
    ELSE IF is_linux THEN
        IF which("dnf") THEN "dnf"
        ELSE IF which("apt") THEN "apt"
        ELSE IF which("yum") THEN "yum"
        ELSE IF which("pacman") THEN "pacman"
        ELSE None
    ELSE IF is_macos THEN
        IF which("brew") THEN "brew" ELSE None
    ELSE None

get_package_manager ==
    IF is_windows THEN
        IF which("winget") THEN "winget"
        ELSE IF which("choco") THEN "choco"
        ELSE IF which("scoop") THEN "scoop"
        ELSE None
    ELSE IF is_linux THEN
        IF which("apt") THEN "apt"
        ELSE IF which("dnf") THEN "dnf"
        ELSE IF which("yum") THEN "yum"
        ELSE IF which("pacman") THEN "pacman"
        ELSE None
    ELSE IF is_macos THEN
        IF which("brew") THEN "brew" ELSE None
    ELSE None

\* variant: the version command runs whenever one is given
check_tool_always_version(tool_name, version_cmd, min_version, out) ==
    IF ~which(tool_name) THEN
        [installed |-> FALSE, status |-> "Not installed", cmds |-> <<>>]
    ELSE IF Truthy(version_cmd) THEN
        IF out = "raise" THEN
            [installed |-> FALSE, status |-> "Version check failed",
             cmds |-> <<[cmd |-> version_cmd, out |-> out]>>]
        ELSE
            [installed |-> TRUE, status |-> "Installed",
             cmds |-> <<[cmd |-> version_cmd, out |-> out]>>]
    ELSE
        [installed |-> TRUE, status |-> "Installed", cmds |-> <<>>]

\* variant: a failed version command still reports the tool installed
check_tool_lenient_except(tool_name, version_cmd, min_version, out) ==
    IF ~which(tool_name) THEN
        [installed |-> FALSE, status |-> "Not installed", cmds |-> <<>>]
    ELSE IF Truthy(version_cmd) /\ Truthy(min_version) THEN
        [installed |-> TRUE, status |-> "Installed",
         cmds |-> <<[cmd |-> version_cmd, out |-> out]>>]
    ELSE
        [installed |-> TRUE, status |-> "Installed", cmds |-> <<>>]

\* check_tool: returns (installed, status) and the commands it dispatched
check_tool(tool_name, version_cmd, min_version, out) ==
    IF ~which(tool_name) THEN
        [installed |-> FALSE, status |-> "Not installed", cmds |-> <<>>]
    ELSE IF Truthy(version_cmd) /\ Truthy(min_version) THEN
        IF out = "raise" THEN
            [installed |-> FALSE, status |-> "Version check failed",
             cmds |-> <<[cmd |-> version_cmd, out |-> out]>>]
        ELSE
            [installed |-> TRUE, status |-> "Installed",
             cmds |-> <<[cmd |-> version_cmd, out |-> out]>>]
    ELSE
        [installed |-> TRUE, status |-> "Installed", cmds |-> <<>>]

\* run_command: True on exit 0, False on CalledProcessError, any other
\* exception is not caught
run_command(cmd, out) ==
    [result |-> IF out = "zero" THEN "true"
                ELSE IF out = "nonzero" THEN "false"
                ELSE "raise",
     cmds |-> <<[cmd |-> cmd, out |-> out]>>]

NoCommand(res) == [result |-> res, cmds |-> <<>>]

\* variant: the final else branch reports success
install_cmake_else_true(vout, out) ==
    LET chk == [installed |-> which("cmake"), cmds |-> <<>>]
        r == IF pkg_mgr \in {"winget", "choco", "apt", "dnf", "yum", "pacman", "brew"}
             THEN run_command("install cmake", out)
             ELSE NoCommand("true")
    IN  IF chk.installed THEN [result |-> "true", cmds |-> chk.cmds]
        ELSE [result |-> r.result, cmds |-> chk.cmds \o r.cmds]

install_cmake(vout, out) ==
    LET chk == check_tool("cmake", "cmake --version", None, vout)
        r == IF pkg_mgr = "winget" THEN run_command("winget install Kitware.CMake", out)
             ELSE IF pkg_mgr = "choco" THEN run_command("choco install cmake", out)
             ELSE IF pkg_mgr = "apt" THEN run_command("sudo apt update && sudo apt install -y cmake", out)
             ELSE IF pkg_mgr = "dnf" THEN run_command("sudo dnf install -y cmake", out)
             ELSE IF pkg_mgr = "yum" THEN run_command("sudo yum install -y cmake", out)
             ELSE IF pkg_mgr = "pacman" THEN run_command("sudo pacman -S --noconfirm cmake", out)
             ELSE IF pkg_mgr = "brew" THEN run_command("brew install cmake", out)
             ELSE NoCommand("false")
    IN  IF chk.installed THEN [result |-> "true", cmds |-> chk.cmds]
        ELSE [result |-> r.result, cmds |-> chk.cmds \o r.cmds]

\* variant: Windows without a compiler reports failure
install_compiler_windows_false(out) ==
    LET compilers == IF is_windows THEN {"g++", "clang++", "cl"} ELSE {"g++", "clang++"}
    IN  IF \E compiler \in compilers : which(compiler) THEN NoCommand("true")
        ELSE IF is_windows THEN NoCommand("false")
        ELSE IF pkg_mgr \in {"apt", "dnf", "yum", "pacman", "brew"}
             THEN run_command("install compiler", out)
        ELSE NoCommand("false")

install_compiler(out) ==
    LET compilers == IF is_windows THEN {"g++", "clang++", "cl"} ELSE {"g++", "clang++"}
    IN  IF \E compiler \in compilers : which(compiler) THEN NoCommand("true")
        ELSE IF is_windows THEN NoCommand("true")
        ELSE IF pkg_mgr = "apt" THEN run_command("sudo apt install -y build-essential", out)
        ELSE IF pkg_mgr = "dnf" THEN run_command("sudo dnf groupinstall -y 'Development Tools'", out)
        ELSE IF pkg_mgr = "yum" THEN run_command("sudo yum groupinstall -y 'Development Tools'", out)
        ELSE IF pkg_mgr = "pacman" THEN run_command("sudo pacman -S --noconfirm base-devel", out)
        ELSE IF pkg_mgr = "brew" THEN run_command("xcode-select --install", out)
        ELSE NoCommand("false")

\* variant: an install command is run whatever the package manager
install_git_any_manager(vout, out) ==
    IF which("git") THEN NoCommand("true")
    ELSE run_command("install git", out)

install_git(vout, out) ==
    LET chk == check_tool("git", "git --version", None, vout)
        r == IF pkg_mgr = "winget" THEN run_command("winget install Git.Git", out)
             ELSE IF pkg_mgr = "choco" THEN run_command("choco install git", out)
             ELSE IF pkg_mgr = "apt" THEN run_command("sudo apt install -y git", out)
             ELSE IF pkg_mgr = "dnf" THEN run_command("sudo dnf install -y git", out)
             ELSE IF pkg_mgr = "yum" THEN run_command("sudo yum install -y git", out)
             ELSE IF pkg_mgr = "pacman" THEN run_command("sudo pacman -S --noconfirm git", out)
             ELSE IF pkg_mgr = "brew" THEN run_command("brew install git", out)
             ELSE NoCommand("false")
    IN  IF chk.installed THEN [result |-> "true", cmds |-> chk.cmds]
        ELSE [result |-> r.result, cmds |-> chk.cmds \o r.cmds]

\* success &= run_command(...): the right operand is always evaluated
AndResult(success, r) ==
    IF r = "raise" THEN "raise"
    ELSE IF success = "true" /\ r = "true" THEN "true"
    ELSE "false"

install_gcovr(out) ==
    IF pkg_mgr = "apt" THEN run_command("sudo apt install -y gcovr", out)
    ELSE IF pkg_mgr = "dnf" THEN run_command("sudo dnf install -y gcovr", out)
    ELSE IF pkg_mgr = "yum" THEN run_command("sudo yum install -y gcovr", out)
    ELSE IF pkg_mgr = "pacman" THEN run_command("sudo pacman -S --noconfirm gcovr", out)
    ELSE IF pkg_mgr = "brew" THEN run_command("brew install gcovr", out)
    ELSE NoCommand("false")

install_lcov(out) ==
    IF pkg_mgr = "apt" THEN run_command("sudo apt install -y lcov", out)
    ELSE IF pkg_mgr = "dnf" THEN run_command("sudo dnf install -y lcov", out)
    ELSE IF pkg_mgr = "yum" THEN run_command("sudo yum install -y lcov", out)
    ELSE IF pkg_mgr = "pacman" THEN run_command("sudo pacman -S --noconfirm lcov", out)
    ELSE IF pkg_mgr = "brew" THEN run_command("brew install lcov", out)
    ELSE NoCommand("false")

\* variant: lcov is skipped once gcovr failed
install_coverage_tools_short_circuit(out1, out2) ==
    IF is_windows THEN
        IF which("OpenCppCoverage") THEN NoCommand("true")
        ELSE IF pkg_mgr = "choco" THEN run_command("choco install opencppcoverage", out1)
        ELSE NoCommand("false")
    ELSE
        LET gcovr_installed == which("gcovr")
            lcov_installed == which("lcov")
            g == IF ~gcovr_installed THEN install_gcovr(out1) ELSE NoCommand("true")
            l == IF ~lcov_installed THEN install_lcov(out2) ELSE NoCommand("true")
        IN  IF gcovr_installed /\ lcov_installed THEN NoCommand("true")
            ELSE IF g.result # "true" THEN g
            ELSE [result |-> l.result, cmds |-> g.cmds \o l.cmds]

install_coverage_tools(out1, out2) ==
    IF is_windows THEN
        IF which("OpenCppCoverage") THEN NoCommand("true")
        ELSE IF pkg_mgr = "choco" THEN run_command("choco install opencppcoverage", out1)
        ELSE NoCommand("false")
    ELSE
        LET gcovr_installed == which("gcovr")
            lcov_installed == which("lcov")
            g == IF ~gcovr_installed THEN install_gcovr(out1) ELSE NoCommand("true")
            success1 == AndResult("true", g.result)
            l == IF ~lcov_installed THEN install_lcov(out2) ELSE NoCommand("true")
            success2 == AndResult(success1, l.result)
        IN  IF gcovr_installed /\ lcov_installed THEN NoCommand("true")
            ELSE IF success1 = "raise" THEN [result |-> "raise", cmds |-> g.cmds]
            ELSE [result |-> success2, cmds |-> g.cmds \o l.cmds]

install_doxygen(vout, out) ==
    LET chk == check_tool("doxygen", "doxygen --version", None, vout)
        r == IF pkg_mgr = "winget" THEN run_command("winget install DimitriVanHeesch.Doxygen", out)
             ELSE IF pkg_mgr = "choco" THEN run_command("choco install doxygen.install", out)
             ELSE IF pkg_mgr = "apt" THEN run_command("sudo apt install -y doxygen graphviz", out)
             ELSE IF pkg_mgr = "dnf" THEN run_command("sudo dnf install -y doxygen graphviz", out)
             ELSE IF pkg_mgr = "yum" THEN run_command("sudo yum install -y doxygen graphviz", out)
             ELSE IF pkg_mgr = "pacman" THEN run_command("sudo pacman -S --noconfirm doxygen graphviz", out)
             ELSE IF pkg_mgr = "brew" THEN run_command("brew install doxygen graphviz", out)
             ELSE NoCommand("false")
    IN  IF chk.installed THEN [result |-> "true", cmds |-> chk.cmds]
        ELSE [result |-> r.result, cmds |-> chk.cmds \o r.cmds]

----------------------------------------------------------------------------
\* main

Tag(tool, cs) == [i \in 1..Len(cs) |-> [tool |-> tool, cmd |-> cs[i].cmd, out |-> cs[i].out]]

\* one `if installer.install_x(): success_count += 1` of main; an exception
\* that leaves install_x leaves main too and the interpreter exits with 1
Ensure(tool, r, next) ==
    /\ cmds' = cmds \o Tag(tool, r.cmds)
    /\ IF r.result = "raise"
       THEN /\ raised' = TRUE
            /\ pc' = "exited"
            /\ exit_status' = 1
            /\ UNCHANGED <<ensured, success_count>>
       ELSE /\ ensured' = Append(ensured, [tool |-> tool, ok |-> (r.result = "true")])
            /\ success_count' = IF r.result = "true" THEN success_count + 1 ELSE success_count
            /\ pc' = next
            /\ UNCHANGED <<raised, exit_status>>
    /\ UNCHANGED <<system, path, install_optional, pkg_mgr, call, ret>>

\* variant: the exit status compares against the four required tools only
ExitStatus_required_only(count, total) == IF count >= 4 THEN 0 ELSE 1

ExitStatus(count, total) == IF count = total THEN 0 ELSE 1

Init ==
    /\ system \in Systems
    /\ path \in {p \in SUBSET (PkgMgrExes \cup ToolExes) :
                    Cardinality(p \cap PkgMgrExes) <= MaxPkgMgrsOnPath}
    /\ install_optional \in BOOLEAN
    /\ pc = "start"
    /\ pkg_mgr = None
    /\ success_count = 0
    /\ total_tools = 0
    /\ ensured = <<>>
    /\ cmds = <<>>
    /\ exit_status = NoStatus
    /\ raised = FALSE
    /\ call = None
    /\ ret = None

Detect ==
    /\ pc = "start"
    /\ pkg_mgr' = get_package_manager
    /\ success_count' = 0
    /\ total_tools' = 4
    /\ pc' = "cmake"
    /\ UNCHANGED <<system, path, install_optional, ensured, cmds, exit_status,
                   raised, call, ret>>

InstallCmake ==
    /\ pc = "cmake"
    /\ \E vout \in Outcomes, out \in Outcomes :
          Ensure("cmake", install_cmake(vout, out), "compiler")
    /\ UNCHANGED total_tools

InstallCompiler ==
    /\ pc = "compiler"
    /\ \E out \in Outcomes : Ensure("compiler", install_compiler(out), "git")
    /\ UNCHANGED total_tools

InstallGit ==
    /\ pc = "git"
    /\ \E vout \in Outcomes, out \in Outcomes :
          Ensure("git", install_git(vout, out), "coverage")
    /\ UNCHANGED total_tools

InstallCoverageTools ==
    /\ pc = "coverage"
    /\ \E out1 \in Outcomes, out2 \in Outcomes :
          Ensure("coverage", install_coverage_tools(out1, out2), "optional")
    /\ UNCHANGED total_tools

\* variant: total_tools is not incremented for the optional tool
InstallDoxygen_no_total ==
    /\ pc = "optional"
    /\ install_optional
    /\ \E vout \in Outcomes, out \in Outcomes :
          Ensure("doxygen", install_doxygen(vout, out), "summary")
    /\ UNCHANGED total_tools

InstallDoxygen ==
    /\ pc = "optional"
    /\ install_optional
    /\ \E vout \in Outcomes, out \in Outcomes :
          LET r == install_doxygen(vout, out)
          IN  /\ Ensure("doxygen", r, "summary")
              /\ total_tools' = IF r.result = "raise" THEN total_tools
                                ELSE total_tools + 1

SkipOptional ==
    /\ pc = "optional"
    /\ ~install_optional
    /\ pc' = "summary"
    /\ UNCHANGED <<system, path, install_optional, pkg_mgr, success_count,
                   total_tools, ensured, cmds, exit_status, raised, call, ret>>

Summary ==
    /\ pc = "summary"
    /\ exit_status' = ExitStatus(success_count, total_tools)
    /\ pc' = "exited"
    /\ UNCHANGED <<system, path, install_optional, pkg_mgr, success_count,
                   total_tools, ensured, cmds, raised, call, ret>>

Next ==
    \/ Detect
    \/ InstallCmake
    \/ InstallCompiler
    \/ InstallGit
    \/ InstallCoverageTools
    \/ InstallDoxygen
    \/ SkipOptional
    \/ Summary

Spec == Init /\ [][Next]_vars

----------------------------------------------------------------------------
\* SystemDetector.get_package_manager over every set of package-manager
\* executables

InitDetect ==
    /\ system \in Systems
    /\ path \in SUBSET PkgMgrExes
    /\ install_optional = FALSE
    /\ pc = "start"
    /\ pkg_mgr = None
    /\ success_count = 0
    /\ total_tools = 0
    /\ ensured = <<>>
    /\ cmds = <<>>
    /\ exit_status = NoStatus
    /\ raised = FALSE
    /\ call = None
    /\ ret = None

SpecDetect == InitDetect /\ [][Detect]_vars

----------------------------------------------------------------------------
\* ToolInstaller.check_tool called directly, with and without min_version

CheckedTools == {"cmake", "git", "doxygen"}
VersionCmds == {None, "cmake --version", "git --version", "doxygen --version"}
MinVersions == {None, "3.22"}

InitCheckTool ==
    /\ system \in {"linux"}
    /\ path \in SUBSET CheckedTools
    /\ call \in [tool_name : CheckedTools, version_cmd : VersionCmds,
                 min_version : MinVersions]
    /\ install_optional = FALSE
    /\ pc = "call"
    /\ pkg_mgr = None
    /\ success_count = 0
    /\ total_tools = 0
    /\ ensured = <<>>
    /\ cmds = <<>>
    /\ exit_status = NoStatus
    /\ raised = FALSE
    /\ ret = None

CheckToolCall ==
    /\ pc = "call"
    /\ \E out \in Outcomes :
          ret' = check_tool(call.tool_name, call.version_cmd, call.min_version, out)
    /\ pc' = "returned"
    /\ UNCHANGED <<system, path, install_optional, pkg_mgr, success_count,
                   total_tools, ensured, cmds, exit_status, raised, call>>

SpecCheckTool == InitCheckTool /\ [][CheckToolCall]_vars

----------------------------------------------------------------------------
\* Vocabulary of the properties

RequiredTools == <<"cmake", "compiler", "git", "coverage">>
Expected == IF install_optional THEN Append(RequiredTools, "doxygen") ELSE RequiredTools

CmdsOf(t) == SelectSeq(cmds, LAMBDA c : c.tool = t)
Returned(t) == \E i \in DOMAIN ensured : ensured[i].tool = t
Ok(t) == \E i \in DOMAIN ensured : ensured[i].tool = t /\ ensured[i].ok
Detected == pc # "start"

\* the executable(s) whose presence makes the tool count as present
Found(t) ==
    IF t = "compiler" THEN
        (path \cap (IF system = "windows" THEN {"g++", "clang++", "cl"}
                    ELSE {"g++", "clang++"})) # {}
    ELSE IF t = "coverage" THEN
        IF system = "windows" THEN "OpenCppCoverage" \in path
        ELSE {"gcovr", "lcov"} \subseteq path
    ELSE t \in path

\* the (tool, package manager) pairs that have an install command
UnixMgrs == {"apt", "dnf", "yum", "pacman", "brew"}
HasMapping(t, mgr) ==
    IF t \in {"cmake", "git", "doxygen"} THEN mgr \in UnixMgrs \cup {"winget", "choco"}
    ELSE IF t = "compiler" THEN system # "windows" /\ mgr \in UnixMgrs
    ELSE IF system = "windows" THEN mgr = "choco"
    ELSE mgr \in UnixMgrs

Candidates ==
    IF system = "windows" THEN <<"winget", "choco", "scoop">>
    ELSE IF system = "linux" THEN <<"apt", "dnf", "yum", "pacman">>
    ELSE IF system = "darwin" THEN <<"brew">>
    ELSE <<>>

IsPrefix(s, t) == Len(s) <= Len(t) /\ \A i \in 1..Len(s) : s[i] = t[i]
Names(e) == [i \in 1..Len(e) |-> e[i].tool]

----------------------------------------------------------------------------
\* C1: once the process has exited, its status is 0 exactly when every
\* attempted tool (the four required ones, plus doxygen with
\* --install-optional) returned success, and 1 otherwise; when the summary
\* was reached this is success_count = total_tools.
C1_ExitStatusIffAllSucceeded ==
    pc = "exited" =>
        /\ exit_status \in {0, 1}
        /\ exit_status = 0 <=> \A i \in DOMAIN Expected : Ok(Expected[i])
        /\ ~raised => (exit_status = 0 <=> success_count = total_tools)
        /\ ~raised => success_count = Cardinality({i \in DOMAIN ensured : ensured[i].ok})

C1_Witness ==
    /\ pc = "exited" /\ exit_status = 1 /\ ~raised
    /\ install_optional /\ success_count = 4 /\ total_tools = 5

C1_WitnessZero ==
    pc = "exited" /\ exit_status = 0 /\ Len(cmds) > 0

\* C2: a tool whose executable is found on the path is reported as success
\* and no shell command at all is dispatched for it.
C2_FoundMeansSuccessNoCommand ==
    /\ \A i \in DOMAIN cmds : ~Found(cmds[i].tool)
    /\ \A i \in DOMAIN ensured : Found(ensured[i].tool) => ensured[i].ok
    /\ \A i \in DOMAIN Expected :
          (Found(Expected[i]) /\ pc = "summary") => Ok(Expected[i])

C2_Witness ==
    /\ pc = "summary" /\ install_optional /\ system = "linux"
    /\ \A i \in DOMAIN Expected : Found(Expected[i])
    /\ pkg_mgr = "apt" /\ cmds = <<>> /\ success_count = 5

\* C3 as stated: every absent tool without an install mapping for the
\* detected package manager returns failure and runs no command.
C3_AbsentUnmappedFails ==
    \A i \in DOMAIN ensured :
        LET t == ensured[i].tool
        IN  (~Found(t) /\ ~HasMapping(t, pkg_mgr)) =>
                (~ensured[i].ok /\ CmdsOf(t) = <<>>)

\* C3 amended: the same, except that the compiler on Windows returns
\* success (still without running a command).
C3_AbsentUnmappedFailsExceptWindowsCompiler ==
    /\ \A i \in DOMAIN ensured :
        LET t == ensured[i].tool
        IN  (~Found(t) /\ ~HasMapping(t, pkg_mgr)) =>
                /\ CmdsOf(t) = <<>>
                /\ ensured[i].ok <=> (t = "compiler" /\ system = "windows")
    /\ \A i \in DOMAIN cmds : HasMapping(cmds[i].tool, pkg_mgr)

C3_Witness ==
    /\ pc = "summary" /\ system = "windows" /\ pkg_mgr = "scoop"
    /\ path \cap ToolExes = {}
    /\ cmds = <<>> /\ success_count = 1 /\ Ok("compiler") /\ ~Ok("git")

\* C4: the detected package manager is the earliest present member of the
\* family's candidate list, and none when no candidate is present or the
\* family is not recognised.
C4_EarliestCandidate ==
    Detected =>
        IF \E i \in DOMAIN Candidates : Candidates[i] \in path
        THEN \E i \in DOMAIN Candidates :
                /\ pkg_mgr = Candidates[i]
                /\ Candidates[i] \in path
                /\ \A j \in 1..(i - 1) : Candidates[j] \notin path
        ELSE pkg_mgr = None

C4_Witness ==
    /\ Detected /\ system = "linux" /\ pkg_mgr = "apt"
    /\ {"apt", "dnf", "brew", "winget"} \subseteq path

\* C5: not on Windows, with a supported package manager and gcovr and lcov
\* both missing, install_coverage_tools runs the gcovr command and then the
\* lcov command whatever the exit status of the first, and returns success
\* exactly when both exit with status 0.
C5_BothCoverageInstallsAttempted ==
    (/\ Returned("coverage") /\ system # "windows" /\ pkg_mgr \in UnixMgrs
     /\ "gcovr" \notin path /\ "lcov" \notin path) =>
        LET cs == CmdsOf("coverage")
        IN  /\ Len(cs) = 2
            /\ cs[1].cmd = install_gcovr("zero").cmds[1].cmd
            /\ cs[2].cmd = install_lcov("zero").cmds[1].cmd
            /\ Ok("coverage") <=> (cs[1].out = "zero" /\ cs[2].out = "zero")

C5_Witness ==
    /\ Returned("coverage") /\ system = "linux" /\ pkg_mgr = "dnf"
    /\ "gcovr" \notin path /\ "lcov" \notin path
    /\ Len(CmdsOf("coverage")) = 2
    /\ CmdsOf("coverage")[1].out = "nonzero"
    /\ CmdsOf("coverage")[2].out = "zero"
    /\ ~Ok("coverage")

\* C6: the tools are ensured in the order cmake, compiler, git, coverage
\* (then doxygen exactly when --install-optional is given), each once, and
\* when the summary is reached all of them have been ensured whatever
\* failures were reported, with total_tools 5 with the flag and 4 without.
C6_EveryToolEnsuredInOrder ==
    /\ IsPrefix(Names(ensured), Expected)
    /\ pc = "summary" =>
          /\ Names(ensured) = Expected
          /\ total_tools = IF install_optional THEN 5 ELSE 4

C6_Witness ==
    /\ pc = "summary" /\ install_optional /\ total_tools = 5
    /\ ~Ok("cmake") /\ ~Ok("git") /\ Returned("doxygen")
    /\ \E i \in DOMAIN cmds : cmds[i].out = "nonzero"

\* C7: no exception leaves a tool's handling: however a shell invocation
\* ends, the run goes on to the remaining tools and the summary.
C7_NoExceptionPropagates ==
    /\ ~raised
    /\ pc = "exited" => Names(ensured) = Expected

\* C8: with no package manager detected, no tool executable on the path and
\* no --install-optional, the run ends with a non-zero exit status and
\* success_count 0, or 1 on Windows, where only the compiler check succeeds.
C8_NothingAvailable ==
    (/\ pc = "exited" /\ pkg_mgr = None /\ path \cap ToolExes = {}
     /\ ~install_optional) =>
        /\ exit_status # 0
        /\ success_count = IF system = "windows" THEN 1 ELSE 0
        /\ system = "windows" => (Ok("compiler") /\ ~Ok("cmake") /\ ~Ok("git") /\ ~Ok("coverage"))
        /\ cmds = <<>>

C8_Witness ==
    /\ pc = "exited" /\ pkg_mgr = None /\ path \cap ToolExes = {}
    /\ ~install_optional /\ system = "windows" /\ success_count = 1
    /\ exit_status = 1

\* C9 as stated: for a tool found on the path with a version command
\* configured, check_tool runs the command and reports the tool present
\* however the command ends.
C9_VersionCommandAlwaysRunAndPresent ==
    (pc = "returned" /\ call.tool_name \in path /\ Truthy(call.version_cmd)) =>
        /\ Len(ret.cmds) = 1
        /\ ret.installed

\* C9 amended: for a tool found on the path, the version command is run
\* only when a minimum version is given as well; the tool is then reported
\* present on a zero or non-zero exit and absent when the invocation
\* raises.  Without both arguments the tool is present and nothing is run.
C9_VersionCommandOnlyWithMinVersion ==
    (pc = "returned" /\ call.tool_name \in path) =>
        IF Truthy(call.version_cmd) /\ Truthy(call.min_version)
        THEN /\ Len(ret.cmds) = 1
             /\ ret.cmds[1].cmd = call.version_cmd
             /\ ret.installed <=> ret.cmds[1].out # "raise"
        ELSE ret.cmds = <<>> /\ ret.installed

C9_Witness ==
    /\ pc = "returned" /\ call.tool_name \in path
    /\ Truthy(call.version_cmd) /\ Truthy(call.min_version)
    /\ Len(ret.cmds) = 1 /\ ret.cmds[1].out = "raise" /\ ~ret.installed

\* C10: install_compiler on Windows always returns success and runs no
\* command; elsewhere, with no compiler found, it returns the outcome of the
\* package manager's install command, or failure when there is none.
C10_CompilerOutcome ==
    /\ system = "windows" => CmdsOf("compiler") = <<>>
    /\ Returned("compiler") =>
          IF system = "windows" THEN Ok("compiler")
          ELSE IF Found("compiler") THEN Ok("compiler")
          ELSE IF pkg_mgr \in UnixMgrs
               THEN /\ Len(CmdsOf("compiler")) = 1
                    /\ Ok("compiler") <=> CmdsOf("compiler")[1].out = "zero"
               ELSE ~Ok("compiler") /\ CmdsOf("compiler") = <<>>

C10_Witness ==
    /\ Returned("compiler") /\ system = "windows" /\ pkg_mgr = "choco"
    /\ ~Found("compiler") /\ Ok("compiler") /\ CmdsOf("compiler") = <<>>

C10_WitnessInstall ==
    /\ Returned("compiler") /\ system = "darwin" /\ pkg_mgr = "brew"
    /\ ~Found("compiler") /\ ~Ok("compiler") /\ Len(CmdsOf("compiler")) = 1

====
